---- MODULE Spec2Model ----
(***************************************************************************)
(* Model of the secrets_manager key-management service                     *)
(* (src/backend/secrets_manager): the cryptographic envelope               *)
(* (app/core/crypto), the repository (app/crud.py), the service            *)
(* (app/service.py) and the gRPC facade (app/grpc/server.py).              *)
(*                                                                         *)
(* Every await on the database is a suspend point at which another RPC     *)
(* handler may run, so a create RPC is a chain of actions, one per         *)
(* database round trip (select, update+commit, insert+commit, refresh,     *)
(* re-fetch), while a get RPC, which has a single round trip, is one       *)
(* action.                                                                 *)
(***************************************************************************)
EXTENDS Integers, Sequences, FiniteSets, TLC

---------------------------------------------------------------------------
(* Bounds of the model.                                                    *)

\* rows a run of two racing handlers may hold, creates in flight included
MaxRecords == 3
\* rows a run of one handler at a time may hold (versions of its key names)
MaxVersions == 2
\* the creation instants datetime.now() may return are 0..MaxClock
MaxClock == 2
\* byte values are 0..ByteMod-1
ByteMod == 4

---------------------------------------------------------------------------
(* Values.                                                                 *)

Kinds == {"secret", "asymmetric", "symmetric"}

\* SQL NULL / Python None in a string column
NULL == "NULL"

Byte == 0 .. (ByteMod - 1)

\* Code points of the model's text: 0 and 1 are ASCII (one byte in UTF-8),
\* 2 is a non-ASCII code point (two bytes in UTF-8: lead 2, continuation 3).
AsciiChars == {0, 1}
WideChars == {2}

\* str.encode("utf-8")
RECURSIVE utf8_encode(_)
utf8_encode(text) ==
    IF text = <<>> THEN <<>>
    ELSE (IF Head(text) \in AsciiChars THEN <<Head(text)>> ELSE <<2, 3>>)
         \o utf8_encode(Tail(text))

\* bytes.decode("utf-8"): exc is "UnicodeDecodeError" when the bytes are not
\* the encoding of any text.
RECURSIVE utf8_decode(_)
utf8_decode(bytes) ==
    IF bytes = <<>> THEN [exc |-> "", text |-> <<>>]
    ELSE IF Head(bytes) \in AsciiChars
         THEN LET r == utf8_decode(Tail(bytes))
              IN  [exc |-> r.exc, text |-> <<Head(bytes)>> \o r.text]
    ELSE IF Head(bytes) = 2 /\ Len(bytes) >= 2 /\ bytes[2] = 3
         THEN LET r == utf8_decode(SubSeq(bytes, 3, Len(bytes)))
              IN  [exc |-> r.exc, text |-> <<2>> \o r.text]
    ELSE [exc |-> "UnicodeDecodeError", text |-> <<>>]

\* base64.b64encode(...).decode("ascii"): every byte becomes a character of
\* a separate alphabet (10 + byte) and the text is padded with '=' (here 9)
\* to a multiple of four characters.
RECURSIVE b64_pad(_)
b64_pad(text) == IF Len(text) % 4 = 0 THEN text ELSE b64_pad(text \o <<9>>)

b64encode(bytes) == b64_pad([i \in 1 .. Len(bytes) |-> 10 + bytes[i]])

---------------------------------------------------------------------------
(* Cryptographic envelope: app/core/crypto/symmetric.py.                   *)
(* A key is [len, id]: its length in bytes and which key of that length    *)
(* it is. len = 0 is the empty byte string.                                *)

IVLen == 16

AesKeyLens == {16, 24, 32}

\* algorithms.AES(key) raises ValueError for any other key length
valid_aes_key(key) == key.len \in AesKeyLens

\* Byte i of the CFB keystream E_key(iv) of the first block.
keystream(key, iv, i) == (key.id + iv[((i - 1) % IVLen) + 1] + i) % ByteMod

\* Cipher(AES(key), CFB(iv)).encryptor().update(plaintext)
cfb_encrypt(key, iv, plaintext) ==
    [i \in 1 .. Len(plaintext) |-> (plaintext[i] + keystream(key, iv, i)) % ByteMod]

\* a decryptor that applies the keystream the way the encryptor does
cfb_decrypt_adding(key, iv, ciphertext) ==
    [i \in 1 .. Len(ciphertext) |-> (ciphertext[i] + keystream(key, iv, i)) % ByteMod]

\* Cipher(AES(key), CFB(iv)).decryptor().update(ciphertext)
cfb_decrypt(key, iv, ciphertext) ==
    [i \in 1 .. Len(ciphertext) |->
        (ciphertext[i] + ByteMod - keystream(key, iv, i)) % ByteMod]

\* aes_encrypt_data(key, plaintext) with iv the 16 bytes os.urandom returned
aes_encrypt_data(key, iv, plaintext) ==
    IF ~valid_aes_key(key) THEN [exc |-> "ValueError", data |-> <<>>]
    ELSE [exc |-> "", data |-> iv \o cfb_encrypt(key, iv, plaintext)]

\* aes_decrypt_data over a cipher that takes a key of any length
aes_decrypt_data_any_key(key, ciphertext) ==
    LET iv == SubSeq(ciphertext, 1, IVLen)
        actual_ciphertext == SubSeq(ciphertext, IVLen + 1, Len(ciphertext))
    IN  [exc |-> "", data |-> cfb_decrypt(key, iv, actual_ciphertext)]

\* aes_decrypt_data with the slice after the IV begun one byte early
aes_decrypt_data_early_slice(key, ciphertext) ==
    IF ~valid_aes_key(key) THEN [exc |-> "ValueError", data |-> <<>>]
    ELSE LET iv == SubSeq(ciphertext, 1, IVLen)
             actual_ciphertext == SubSeq(ciphertext, IVLen, Len(ciphertext))
         IN  [exc |-> "", data |-> cfb_decrypt(key, iv, actual_ciphertext)]

\* aes_decrypt_data(key, ciphertext)
aes_decrypt_data(key, ciphertext) ==
    IF ~valid_aes_key(key) THEN [exc |-> "ValueError", data |-> <<>>]
    ELSE LET iv == SubSeq(ciphertext, 1, IVLen)
             actual_ciphertext == SubSeq(ciphertext, IVLen + 1, Len(ciphertext))
         IN  [exc |-> "", data |-> cfb_decrypt(key, iv, actual_ciphertext)]

\* the bytes of a key, as bytes.fromhex(key_hex) returns them
key_bytes(key) == [i \in 1 .. key.len |-> key.id]

\* generate_kid(created_at): the creation instant and a random part
generate_kid(created_at, rnd) == <<created_at, rnd>>

---------------------------------------------------------------------------
(* State.                                                                  *)

VARIABLES
    env,         \* the inputs this run draws from (a scenario of Scenarios)
    store,       \* the three tables: kind -> sequence of rows, in insert order
    issued,      \* history: for every row, the plaintext and master key it was written from
    master_key,  \* the master key the facade holds (Servicer's closure variable)
    phase,       \* "down", "serving" or "failed": the gRPC server of this process
    health,      \* the health servicer's status of "" and of the business service
    clock,       \* the latest instant datetime.now() has returned
    resources,   \* app.state.grpc_serve_task, the gRPC database engine, how server.stop ended
    task         \* the RPC handlers: position, request, locals, response

vars == <<env, store, issued, master_key, phase, health, clock, resources, task>>

ServiceName == "secrets_manager.v1.SecretsManagerService"

\* before start_grpc_server: no termination watch, no engine, server.stop
\* not called
NoResources == [grpc_serve_task |-> "none", engine |-> "closed", stop |-> ""]

\* the empty byte string, also None in a LargeBinary attribute
NoBlob == <<>>

\* no ORM object / no dict (None)
NoObject == [kid |-> <<>>]

NoKey == [len |-> 0, id |-> 0]

---------------------------------------------------------------------------
(* Repository: app/crud.py over the tables of app/models.py.               *)

\* .where(key_name == key_name).where(is_active.is_(True))
active_rows(table, key_name) ==
    {i \in 1 .. Len(table) : table[i].key_name = key_name /\ table[i].is_active}

\* a select without order_by: the rows in table order
RECURSIVE in_table_order(_)
in_table_order(rows) ==
    IF rows = {} THEN <<>>
    ELSE LET first == CHOOSE i \in rows : \A j \in rows : i <= j
         IN  <<first>> \o in_table_order(rows \ {first})

\* .order_by(created_at.desc()); rows of one instant stay in table order
RECURSIVE order_by_created_at_desc(_, _)
order_by_created_at_desc(table, rows) ==
    IF rows = {} THEN <<>>
    ELSE LET first == CHOOSE i \in rows : \A j \in rows :
                          \/ table[j].created_at < table[i].created_at
                          \/ table[j].created_at = table[i].created_at /\ i <= j
         IN  <<first>> \o order_by_created_at_desc(table, rows \ {first})

\* Result.scalar_one_or_none(): the row of a one-row result, None (0) for an
\* empty result, MultipleResultsFound for more than one row
scalar_one_or_none(result) ==
    IF Len(result) = 0 THEN [exc |-> "", row |-> 0]
    ELSE IF Len(result) = 1 THEN [exc |-> "", row |-> result[1]]
    ELSE [exc |-> "MultipleResultsFound", row |-> 0]

\* the ORM object of row `row` (None for row 0)
orm_object(table, row) == IF row = 0 THEN NoObject ELSE table[row]

get_secret_by_key_name(table, key_name) ==
    LET found == scalar_one_or_none(in_table_order(active_rows(table, key_name)))
    IN  [exc |-> found.exc, row |-> found.row, obj |-> orm_object(table, found.row)]

\* get_asymmetric_key_pair_by_key_name without `result.private_key = None`
get_asymmetric_key_pair_keeping_private(table, key_name, return_key_type) ==
    IF return_key_type \notin {"pair", "public"}
    THEN [exc |-> "ValueError", row |-> 0, obj |-> NoObject]
    ELSE LET found == scalar_one_or_none(
                          order_by_created_at_desc(table, active_rows(table, key_name)))
         IN  [exc |-> found.exc, row |-> found.row, obj |-> orm_object(table, found.row)]

\* get_asymmetric_key_pair_by_key_name that tests return_key_type after the
\* select, on the row it found
get_asymmetric_key_pair_validating_late(table, key_name, return_key_type) ==
    LET found == scalar_one_or_none(
                     order_by_created_at_desc(table, active_rows(table, key_name)))
        result == orm_object(table, found.row)
    IN  IF found.exc # "" \/ found.row = 0
        THEN [exc |-> found.exc, row |-> 0, obj |-> NoObject]
        ELSE IF return_key_type \notin {"pair", "public"}
        THEN [exc |-> "ValueError", row |-> 0, obj |-> NoObject]
        ELSE [exc |-> "", row |-> found.row,
              obj |-> IF return_key_type = "public"
                      THEN [result EXCEPT !.private_key = NoBlob]
                      ELSE result]

get_asymmetric_key_pair_by_key_name(table, key_name, return_key_type) ==
    IF return_key_type \notin {"pair", "public"}
    THEN [exc |-> "ValueError", row |-> 0, obj |-> NoObject]
    ELSE LET found == scalar_one_or_none(
                          order_by_created_at_desc(table, active_rows(table, key_name)))
             result == orm_object(table, found.row)
         IN  [exc |-> found.exc, row |-> found.row,
              obj |-> IF found.row # 0 /\ return_key_type = "public"
                      THEN [result EXCEPT !.private_key = NoBlob]
                      ELSE result]

get_symmetric_key_by_key_name(table, key_name) ==
    LET found == scalar_one_or_none(
                     order_by_created_at_desc(table, active_rows(table, key_name)))
    IN  [exc |-> found.exc, row |-> found.row, obj |-> orm_object(table, found.row)]

\* the lookup at the head of create_<kind>: get_<kind>_by_key_name
\* (with return_key_type='pair' for key pairs)
lookup_old(kind, table, key_name) ==
    IF kind = "secret" THEN get_secret_by_key_name(table, key_name)
    ELSE IF kind = "asymmetric"
         THEN get_asymmetric_key_pair_by_key_name(table, key_name, "pair")
    ELSE get_symmetric_key_by_key_name(table, key_name)

\* a deactivation that is never committed
deactivate_nothing(table, row) == table

\* a deactivation that deletes the old row
deactivate_by_delete(table, row) ==
    SubSeq(table, 1, row - 1) \o SubSeq(table, row + 1, Len(table))

\* a deactivation by an UPDATE of every active row of the table
deactivate_every_name(table, row) ==
    [i \in 1 .. Len(table) |-> [table[i] EXCEPT !.is_active = FALSE]]

\* a deactivation that flips the flag of the row
deactivate_toggle(table, row) == [table EXCEPT ![row].is_active = ~@]

\* old.is_active = False; db.add(old); commit
deactivate(table, row) == [table EXCEPT ![row].is_active = FALSE]

\* not_null without the constraint on private_key
not_null_but_private_key(kind, obj) ==
    /\ obj.key_name # NULL
    /\ kind = "symmetric" => obj.key_type # NULL
    /\ kind = "secret" => obj.value # NoBlob
    /\ kind = "asymmetric" => obj.public_key # NoBlob
    /\ kind = "symmetric" => obj.key_value # NoBlob

\* the columns declared nullable=False hold a value (a blob the service
\* stores begins with its IV, so only None is empty)
not_null(kind, obj) ==
    /\ obj.key_name # NULL
    /\ kind = "symmetric" => obj.key_type # NULL
    /\ kind = "secret" => obj.value # NoBlob
    /\ kind = "asymmetric" => obj.public_key # NoBlob /\ obj.private_key # NoBlob
    /\ kind = "symmetric" => obj.key_value # NoBlob

\* an insert that, in its own commit, deactivates every row of the key name
insert_superseding(kind, table, obj) ==
    IF \/ \E i \in 1 .. Len(table) : table[i].kid = obj.kid
       \/ ~not_null(kind, obj)
    THEN [exc |-> "IntegrityError", table |-> table]
    ELSE [exc |-> "",
          table |-> Append([i \in 1 .. Len(table) |->
                               IF table[i].key_name = obj.key_name
                               THEN [table[i] EXCEPT !.is_active = FALSE]
                               ELSE table[i]],
                           obj @@ [is_active |-> TRUE])]

\* an insert into a table whose kid column has no primary key
insert_without_primary_key(kind, table, obj) ==
    IF ~not_null(kind, obj)
    THEN [exc |-> "IntegrityError", table |-> table]
    ELSE [exc |-> "", table |-> Append(table, obj @@ [is_active |-> TRUE])]

\* db.add(obj); commit: the row is appended with the column default
\* is_active=True, unless the primary key or a NOT NULL constraint rejects it
insert(kind, table, obj) ==
    IF \/ \E i \in 1 .. Len(table) : table[i].kid = obj.kid
       \/ ~not_null(kind, obj)
    THEN [exc |-> "IntegrityError", table |-> table]
    ELSE [exc |-> "", table |-> Append(table, obj @@ [is_active |-> TRUE])]

\* the session flushes an object whose attributes differ from its row: an
\* UPDATE of the row, unless a NOT NULL constraint rejects it
flush(kind, table, row, obj) ==
    IF row = 0 \/ obj = table[row] THEN [exc |-> "", table |-> table]
    ELSE IF ~not_null(kind, obj) THEN [exc |-> "IntegrityError", table |-> table]
    ELSE [exc |-> "", table |-> [table EXCEPT ![row] = obj]]

---------------------------------------------------------------------------
(* Service: app/service.py. Each operation yields the exception it raises  *)
(* ("" for none), the dict it returns and the storage and crypto steps it  *)
(* took.                                                                   *)

orm_to_dict(obj) == obj

\* get_secret_by_name that returns the stored value as it is
get_secret_by_name_raw(table, key_name, mk) ==
    LET secret == get_secret_by_key_name(table, key_name)
    IN  IF secret.exc # ""
        THEN [exc |-> secret.exc, result |-> NoObject, log |-> <<"select">>]
        ELSE IF secret.row = 0
        THEN [exc |-> "SecretNotFoundError", result |-> NoObject, log |-> <<"select">>]
        ELSE [exc |-> "", result |-> orm_to_dict(secret.obj), log |-> <<"select">>]

get_secret_by_name(table, key_name, mk) ==
    LET secret == get_secret_by_key_name(table, key_name)
        plain == aes_decrypt_data(mk, secret.obj.value)
    IN  IF secret.exc # ""
        THEN [exc |-> secret.exc, result |-> NoObject, log |-> <<"select">>]
        ELSE IF secret.row = 0
        THEN [exc |-> "SecretNotFoundError", result |-> NoObject, log |-> <<"select">>]
        ELSE IF plain.exc # ""
        THEN [exc |-> "DecryptionError", result |-> NoObject,
              log |-> <<"select", "decrypt">>]
        ELSE [exc |-> "",
              result |-> [orm_to_dict(secret.obj) EXCEPT !.value = plain.data],
              log |-> <<"select", "decrypt">>]

svc_get_asymmetric_key_pair_by_key_name(table, key_name, mk, return_key_type) ==
    LET pair == get_asymmetric_key_pair_by_key_name(table, key_name, return_key_type)
        public == aes_decrypt_data(mk, pair.obj.public_key)
        private == aes_decrypt_data(mk, pair.obj.private_key)
        result == [orm_to_dict(pair.obj) EXCEPT !.public_key = public.data]
    IN  IF pair.exc = "ValueError"
        THEN [exc |-> pair.exc, result |-> NoObject, log |-> <<>>]
        ELSE IF pair.exc # ""
        THEN [exc |-> pair.exc, result |-> NoObject, log |-> <<"select">>]
        ELSE IF pair.row = 0
        THEN [exc |-> "SecretNotFoundError", result |-> NoObject, log |-> <<"select">>]
        ELSE IF public.exc # ""
        THEN [exc |-> "DecryptionError", result |-> NoObject,
              log |-> <<"select", "decrypt">>]
        ELSE IF return_key_type # "pair"
        THEN [exc |-> "", result |-> result, log |-> <<"select", "decrypt">>]
        ELSE IF private.exc # ""
        THEN [exc |-> "DecryptionError", result |-> NoObject,
              log |-> <<"select", "decrypt", "decrypt">>]
        ELSE [exc |-> "", result |-> [result EXCEPT !.private_key = private.data],
              log |-> <<"select", "decrypt", "decrypt">>]

\* get_symmetric_key_by_key_name that decrypts before it tests for None
svc_get_symmetric_key_decrypt_first(table, key_name, mk) ==
    LET symmetric_key == get_symmetric_key_by_key_name(table, key_name)
        plain == aes_decrypt_data(mk, symmetric_key.obj.key_value)
    IN  IF symmetric_key.exc # ""
        THEN [exc |-> symmetric_key.exc, result |-> NoObject, log |-> <<"select">>]
        ELSE IF symmetric_key.row = 0 \/ plain.exc # ""
        THEN [exc |-> "DecryptionError", result |-> NoObject,
              log |-> <<"select", "decrypt">>]
        ELSE [exc |-> "",
              result |-> [orm_to_dict(symmetric_key.obj) EXCEPT !.key_value = plain.data],
              log |-> <<"select", "decrypt">>]

\* get_symmetric_key_by_key_name that takes the caller's key for rows of
\* mk_version 1 only
svc_get_symmetric_key_by_version(table, key_name, mk) ==
    LET symmetric_key == get_symmetric_key_by_key_name(table, key_name)
        plain == aes_decrypt_data(IF symmetric_key.obj.mk_version = 1 THEN mk ELSE NoKey,
                                  symmetric_key.obj.key_value)
    IN  IF symmetric_key.exc # ""
        THEN [exc |-> symmetric_key.exc, result |-> NoObject, log |-> <<"select">>]
        ELSE IF symmetric_key.row = 0
        THEN [exc |-> "SecretNotFoundError", result |-> NoObject, log |-> <<"select">>]
        ELSE IF plain.exc # ""
        THEN [exc |-> "DecryptionError", result |-> NoObject,
              log |-> <<"select", "decrypt">>]
        ELSE [exc |-> "",
              result |-> [orm_to_dict(symmetric_key.obj) EXCEPT !.key_value = plain.data],
              log |-> <<"select", "decrypt">>]

svc_get_symmetric_key_by_key_name(table, key_name, mk) ==
    LET symmetric_key == get_symmetric_key_by_key_name(table, key_name)
        plain == aes_decrypt_data(mk, symmetric_key.obj.key_value)
    IN  IF symmetric_key.exc # ""
        THEN [exc |-> symmetric_key.exc, result |-> NoObject, log |-> <<"select">>]
        ELSE IF symmetric_key.row = 0
        THEN [exc |-> "SecretNotFoundError", result |-> NoObject, log |-> <<"select">>]
        ELSE IF plain.exc # ""
        THEN [exc |-> "DecryptionError", result |-> NoObject,
              log |-> <<"select", "decrypt">>]
        ELSE [exc |-> "",
              result |-> [orm_to_dict(symmetric_key.obj) EXCEPT !.key_value = plain.data],
              log |-> <<"select", "decrypt">>]

\* create_secrets_key that stores the value unencrypted
create_secrets_key_plain(key_name, value, mk, mk_version, key_type, created_at, rnd, iv) ==
    [exc |-> "",
     obj |-> [kid |-> generate_kid(created_at, rnd), key_name |-> key_name,
              key_type |-> key_type, value |-> value,
              created_at |-> created_at, mk_version |-> mk_version]]

\* create_secrets_key up to its call of crud.create_secret: the ORM object
\* to insert
create_secrets_key(key_name, value, mk, mk_version, key_type, created_at, rnd, iv) ==
    LET encrypted_value == aes_encrypt_data(mk, iv, value)
    IN  [exc |-> encrypted_value.exc,
         obj |-> [kid |-> generate_kid(created_at, rnd), key_name |-> key_name,
                  key_type |-> key_type, value |-> encrypted_value.data,
                  created_at |-> created_at, mk_version |-> mk_version]]

\* create_asymmetric_key_pair up to its call of crud.create_asymmetric_key_pair;
\* new_key_pair is what generate_key returned
svc_create_asymmetric_key_pair(key_name, new_key_pair, mk, mk_version, key_type, rnd, ivs) ==
    LET encrypted_private_key == aes_encrypt_data(mk, ivs[1], new_key_pair.private_key)
        encrypted_public_key == aes_encrypt_data(mk, ivs[2], new_key_pair.public_key)
    IN  [exc |-> IF encrypted_private_key.exc # "" THEN encrypted_private_key.exc
                 ELSE encrypted_public_key.exc,
         obj |-> [kid |-> generate_kid(new_key_pair.created_at, rnd),
                  key_name |-> key_name, key_type |-> key_type,
                  public_key |-> encrypted_public_key.data,
                  private_key |-> encrypted_private_key.data,
                  created_at |-> new_key_pair.created_at, mk_version |-> mk_version]]

\* create_symmetric_key up to its call of crud.create_symmetric_key;
\* new_symmetric_key is what generate_key returned
svc_create_symmetric_key(key_name, new_symmetric_key, mk, mk_version, key_type, rnd, iv) ==
    LET encrypted_key == aes_encrypt_data(mk, iv, new_symmetric_key.key)
    IN  [exc |-> encrypted_key.exc,
         obj |-> [kid |-> generate_kid(new_symmetric_key.created_at, rnd),
                  key_name |-> key_name, key_type |-> key_type,
                  key_value |-> encrypted_key.data,
                  created_at |-> new_symmetric_key.created_at,
                  mk_version |-> mk_version]]

---------------------------------------------------------------------------
(* Facade: app/grpc/server.py.                                             *)

NoRequest == [key_name |-> "", value |-> <<>>, key_type |-> "", mk_version |-> 0,
              key_size |-> 0, return_key_type |-> ""]

NoResponse == [status |-> "", message |-> "", body |-> NoObject]

IdleTask == [pc |-> "idle", rpc |-> "", kind |-> "", req |-> NoRequest, mk |-> NoKey,
             raced |-> FALSE, obj |-> NoObject, plain |-> NoObject, old |-> 0, ins |-> 0,
             result |-> NoObject, resp |-> NoResponse, log |-> <<>>]

\* context.abort(code, details): the call ends with that status and no message
abort(code, details) == [status |-> code, message |-> details, body |-> NoObject]

ok(message) == [status |-> "OK", message |-> "", body |-> message]

\* result.get("key_type", "") or ""
key_type_or_empty(result) == IF result.key_type = NULL THEN "" ELSE result.key_type

\* int(result.get("mk_version") or default)
mk_version_or(result, default) ==
    IF result.mk_version = 0 THEN default ELSE result.mk_version

\* pb2.Secret(...)
Secret(result, value, default_version) ==
    [kid |-> result.kid, key_name |-> result.key_name,
     key_type |-> key_type_or_empty(result), value |-> value,
     created_at |-> result.created_at,
     mk_version |-> mk_version_or(result, default_version),
     is_active |-> result.is_active]

\* pb2.AsymmetricKeyPair(...)
AsymmetricKeyPair(result, public_key, private_key, default_version) ==
    [kid |-> result.kid, key_name |-> result.key_name,
     key_type |-> key_type_or_empty(result),
     public_key |-> public_key, private_key |-> private_key,
     created_at |-> result.created_at,
     mk_version |-> mk_version_or(result, default_version),
     is_active |-> result.is_active]

\* pb2.SymmetricKey(...)
SymmetricKey(result, key_value, default_version) ==
    [kid |-> result.kid, key_name |-> result.key_name,
     key_type |-> key_type_or_empty(result), key_value |-> key_value,
     created_at |-> result.created_at,
     mk_version |-> mk_version_or(result, default_version),
     is_active |-> result.is_active]

\* Get handlers without `except sm_service.DecryptionError`
get_status_without_permission_denied(exc) ==
    IF exc = "SecretNotFoundError" THEN "NOT_FOUND"
    ELSE IF exc = "UnicodeDecodeError" THEN "DATA_LOSS"
    ELSE "INTERNAL"

\* Get handlers without `except UnicodeDecodeError`
get_status_without_data_loss(exc) ==
    IF exc = "SecretNotFoundError" THEN "NOT_FOUND"
    ELSE IF exc = "DecryptionError" THEN "PERMISSION_DENIED"
    ELSE "INTERNAL"

\* Get handlers with the generic except clause only
get_status_generic(exc) == "INTERNAL"

\* the except clauses of the three Get handlers
get_status(exc) ==
    IF exc = "SecretNotFoundError" THEN "NOT_FOUND"
    ELSE IF exc = "DecryptionError" THEN "PERMISSION_DENIED"
    ELSE IF exc = "UnicodeDecodeError" THEN "DATA_LOSS"
    ELSE "INTERNAL"

\* the message the Get handlers abort with: a fixed text for DATA_LOSS,
\* str(e) otherwise
get_details(exc) ==
    IF exc = "UnicodeDecodeError" THEN "not valid UTF-8" ELSE exc

\* the single except clause of the three Create handlers
create_status(exc) == "INTERNAL"

\* a handler has returned or aborted: its locals are gone; its response,
\* what the service returned to it and the master key it ran under
\* (mk = master_key) are kept as the history of the call
finished(rpc, kind, request, result, response, log) ==
    [IdleTask EXCEPT !.rpc = rpc, !.kind = kind, !.req = request, !.mk = master_key,
                     !.result = result, !.resp = response, !.log = log]

can_start(t) == phase = "serving" /\ t \in env.tasks /\ task[t].pc = "idle"

\* the clients of this run look keys up
can_get(t) == can_start(t) /\ env.lookups

creating == {t \in DOMAIN task : task[t].pc # "idle"}

rows_total == Len(store["secret"]) + Len(store["asymmetric"]) + Len(store["symmetric"])

room == rows_total + Cardinality(creating) < env.rows

\* request.mk_version if set, else 1
request_mk_version(request) ==
    IF request.mk_version # 0 THEN request.mk_version ELSE 1

\* request.key_type or None
request_key_type(request) == IF request.key_type = "" THEN NULL ELSE request.key_type

\* datetime.now(): time does not go back
instants == {i \in {clock, clock + 1} : i <= MaxClock}

\* the creates in flight, other than t's, of a kind and key name
rivals(t, kind, key_name) ==
    {u \in DOMAIN task \ {t} :
        task[u].pc # "idle" /\ task[u].kind = kind /\ task[u].req.key_name = key_name}

\* the handlers once t's Create handler has reached crud.create_<kind>; raced
\* records, for a create in flight, that another create of its kind and key
\* name has been in flight with it
enter_create(t, rpc, kind, request, made, plain) ==
    [u \in DOMAIN task |->
        IF u = t
        THEN [IdleTask EXCEPT !.pc = "select_old", !.rpc = rpc, !.kind = kind,
                              !.req = request, !.obj = made.obj, !.plain = plain,
                              !.raced = rivals(t, kind, request.key_name) # {},
                              !.log = <<"encrypt">>]
        ELSE IF u \in rivals(t, kind, request.key_name)
        THEN [task[u] EXCEPT !.raced = TRUE]
        ELSE task[u]]

\* a Create handler without its `if not mk` check
begin_create_unchecked(t, rpc, kind, request, made, plain, now) ==
    /\ clock' = now
    /\ IF made.exc # ""
       THEN task' = [task EXCEPT ![t] = finished(rpc, kind, request, NoObject,
                        abort(create_status(made.exc), made.exc), <<"encrypt">>)]
       ELSE task' = enter_create(t, rpc, kind, request, made, plain)

\* a Create handler from its entry to the first await of crud.create_<kind>:
\* made is what the service built to insert, plain the plaintext it encrypted
begin_create(t, rpc, kind, request, made, plain, now) ==
    IF master_key.len = 0
    THEN /\ task' = [task EXCEPT ![t] = finished(rpc, kind, request, NoObject,
                        abort("FAILED_PRECONDITION", "Master key not loaded"), <<>>)]
         /\ clock' = clock
    ELSE IF made.exc # ""
    THEN /\ task' = [task EXCEPT ![t] = finished(rpc, kind, request, NoObject,
                        abort(create_status(made.exc), made.exc), <<"encrypt">>)]
         /\ clock' = now
    ELSE /\ task' = enter_create(t, rpc, kind, request, made, plain)
         /\ clock' = now

CreateSecret(t, request, now, rnd, iv) ==
    /\ can_start(t) /\ room
    /\ begin_create(t, "CreateSecret", "secret", request,
           create_secrets_key(request.key_name, utf8_encode(request.value), master_key,
                              request_mk_version(request), request_key_type(request),
                              now, rnd, iv),
           [value |-> utf8_encode(request.value)], now)
    /\ UNCHANGED <<env, resources, store, issued, master_key, phase, health>>

CreateAsymmetricKeyPair(t, request, pems, now, rnd, ivs) ==
    /\ can_start(t) /\ room
    /\ begin_create(t, "CreateAsymmetricKeyPair", "asymmetric", request,
           svc_create_asymmetric_key_pair(request.key_name,
               [private_key |-> pems.private_key, public_key |-> pems.public_key,
                created_at |-> now],
               master_key, request_mk_version(request), request_key_type(request),
               rnd, ivs),
           [public_key |-> pems.public_key, private_key |-> pems.private_key], now)
    /\ UNCHANGED <<env, resources, store, issued, master_key, phase, health>>

CreateSymmetricKey(t, request, key, now, rnd, iv) ==
    /\ can_start(t) /\ room
    /\ Len(key) = request.key_size
    /\ begin_create(t, "CreateSymmetricKey", "symmetric", request,
           svc_create_symmetric_key(request.key_name, [key |-> key, created_at |-> now],
               master_key, request_mk_version(request), request_key_type(request),
               rnd, iv),
           [key_value |-> key], now)
    /\ UNCHANGED <<env, resources, store, issued, master_key, phase, health>>

\* a Create handler that tries the failed step again instead of aborting
fail_create_retrying(t, exc, steps) ==
    task' = [task EXCEPT ![t].log = @ \o steps]

\* a Create handler ends in its except clause
fail_create(t, exc, steps) ==
    task' = [task EXCEPT ![t] = finished(task[t].rpc, task[t].kind, task[t].req, NoObject,
                abort(create_status(exc), exc), task[t].log \o steps)]

\* crud.create_<kind>: old = await get_<kind>_by_key_name(db, key_name)
SelectOld(t) ==
    /\ task[t].pc = "select_old"
    /\ LET old == lookup_old(task[t].kind, store[task[t].kind], task[t].req.key_name)
       IN  IF old.exc # "" THEN fail_create(t, old.exc, <<"select">>)
           ELSE task' = [task EXCEPT ![t].old = old.row,
                                     ![t].pc = IF old.row # 0 THEN "deactivate" ELSE "insert",
                                     ![t].log = @ \o <<"select">>]
    /\ UNCHANGED <<env, resources, store, issued, master_key, phase, health, clock>>

\* crud.create_<kind>: old.is_active = False; commit; refresh(old)
Deactivate(t) ==
    /\ task[t].pc = "deactivate"
    /\ store' = [store EXCEPT ![task[t].kind] = deactivate(@, task[t].old)]
    /\ task' = [task EXCEPT ![t].pc = "insert", ![t].log = @ \o <<"update", "refresh">>]
    /\ UNCHANGED <<env, resources, issued, master_key, phase, health, clock>>

\* crud.create_<kind>: db.add(new); commit
Insert(t) ==
    /\ task[t].pc = "insert"
    /\ LET kind == task[t].kind
           done == insert(kind, store[kind], task[t].obj)
       IN  IF done.exc # ""
           THEN /\ fail_create(t, done.exc, <<"insert">>)
                /\ UNCHANGED <<store, issued>>
           ELSE /\ store' = [store EXCEPT ![kind] = done.table]
                /\ issued' = [issued EXCEPT ![kind] =
                                 Append(@, [mk |-> master_key, plain |-> task[t].plain])]
                /\ task' = [task EXCEPT ![t].pc = "refresh", ![t].ins = Len(done.table),
                                        ![t].log = @ \o <<"insert">>]
    /\ UNCHANGED <<env, resources, master_key, phase, health, clock>>

\* crud.create_<kind>: refresh(new); return new. The service returns
\* orm_to_dict of it; CreateSecret answers from that dict and the request,
\* the other two handlers go on to read the key back.
Refresh(t) ==
    /\ task[t].pc = "refresh"
    /\ LET kind == task[t].kind
           result == orm_to_dict(store[kind][task[t].ins])
       IN  IF kind = "secret"
           THEN task' = [task EXCEPT ![t] =
                    finished(task[t].rpc, kind, task[t].req, result,
                        ok(Secret(result, task[t].req.value,
                                  request_mk_version(task[t].req))),
                        task[t].log \o <<"refresh">>)]
           ELSE task' = [task EXCEPT ![t].pc = "refetch", ![t].result = result,
                                     ![t].log = @ \o <<"refresh">>]
    /\ UNCHANGED <<env, resources, store, issued, master_key, phase, health, clock>>

\* the re-fetch of a Create handler in one transaction with the insert: a
\* failure rolls the inserted row back
Refetch_undoing_insert(t) ==
    /\ task[t].pc = "refetch"
    /\ LET kind == task[t].kind
           result == task[t].result
           version == request_mk_version(task[t].req)
           decrypted ==
               IF kind = "asymmetric"
               THEN svc_get_asymmetric_key_pair_by_key_name(
                        store[kind], task[t].req.key_name, master_key, "pair")
               ELSE svc_get_symmetric_key_by_key_name(
                        store[kind], task[t].req.key_name, master_key)
           public == utf8_decode(decrypted.result.public_key)
           private == utf8_decode(decrypted.result.private_key)
       IN  IF decrypted.exc # ""
           THEN /\ fail_create(t, decrypted.exc, decrypted.log)
                /\ store' = [store EXCEPT ![kind] = SubSeq(@, 1, task[t].ins - 1)
                                       \o SubSeq(@, task[t].ins + 1, Len(@))]
                /\ issued' = [issued EXCEPT ![kind] = SubSeq(@, 1, task[t].ins - 1)
                                       \o SubSeq(@, task[t].ins + 1, Len(@))]
           ELSE /\ UNCHANGED <<store, issued>>
                /\ IF kind = "symmetric"
                   THEN task' = [task EXCEPT ![t] =
                            finished(task[t].rpc, kind, task[t].req, result,
                                ok(SymmetricKey(result,
                                       b64encode(decrypted.result.key_value), version)),
                                task[t].log \o decrypted.log)]
                   ELSE IF public.exc # "" THEN fail_create(t, public.exc, decrypted.log)
                   ELSE IF private.exc # "" THEN fail_create(t, private.exc, decrypted.log)
                   ELSE task' = [task EXCEPT ![t] =
                            finished(task[t].rpc, kind, task[t].req, result,
                                ok(AsymmetricKeyPair(result, public.text, private.text,
                                                     version)),
                                task[t].log \o decrypted.log)]
    /\ UNCHANGED <<env, resources, master_key, phase, health, clock>>

\* CreateAsymmetricKeyPair / CreateSymmetricKey: decrypted = await
\* sm_service.get_<kind>_by_key_name(db, key_name, mk[, "pair"]), then the
\* response from result and decrypted
Refetch(t) ==
    /\ task[t].pc = "refetch"
    /\ LET kind == task[t].kind
           result == task[t].result
           version == request_mk_version(task[t].req)
           decrypted ==
               IF kind = "asymmetric"
               THEN svc_get_asymmetric_key_pair_by_key_name(
                        store[kind], task[t].req.key_name, master_key, "pair")
               ELSE svc_get_symmetric_key_by_key_name(
                        store[kind], task[t].req.key_name, master_key)
           public == utf8_decode(decrypted.result.public_key)
           private == utf8_decode(decrypted.result.private_key)
       IN  IF decrypted.exc # "" THEN fail_create(t, decrypted.exc, decrypted.log)
           ELSE IF kind = "symmetric"
           THEN task' = [task EXCEPT ![t] =
                    finished(task[t].rpc, kind, task[t].req, result,
                        ok(SymmetricKey(result, b64encode(decrypted.result.key_value),
                                        version)),
                        task[t].log \o decrypted.log)]
           ELSE IF public.exc # "" THEN fail_create(t, public.exc, decrypted.log)
           ELSE IF private.exc # "" THEN fail_create(t, private.exc, decrypted.log)
           ELSE task' = [task EXCEPT ![t] =
                    finished(task[t].rpc, kind, task[t].req, result,
                        ok(AsymmetricKeyPair(result, public.text, private.text, version)),
                        task[t].log \o decrypted.log)]
    /\ UNCHANGED <<env, resources, store, issued, master_key, phase, health, clock>>

\* a Get handler: the master-key check, the service call, the response or
\* the except clause that matches
answer_get(t, rpc, kind, request, out, decoded, message) ==
    task' = [task EXCEPT ![t] =
        IF master_key.len = 0
        THEN finished(rpc, kind, request, NoObject,
                 abort("FAILED_PRECONDITION", "Master key not loaded"), <<>>)
        ELSE IF out.exc # ""
        THEN finished(rpc, kind, request, NoObject,
                 abort(get_status(out.exc), get_details(out.exc)), out.log)
        ELSE IF decoded.exc # ""
        THEN finished(rpc, kind, request, out.result,
                 abort(get_status(decoded.exc), get_details(decoded.exc)), out.log)
        ELSE finished(rpc, kind, request, out.result, ok(message), out.log)]

GetSecretByName(t, request) ==
    /\ can_get(t)
    /\ LET out == get_secret_by_name(store["secret"], request.key_name, master_key)
           value == utf8_decode(out.result.value)
       IN  answer_get(t, "GetSecretByName", "secret", request, out, value,
                      Secret(out.result, value.text, 1))
    /\ UNCHANGED <<env, resources, store, issued, master_key, phase, health, clock>>

\* flushes: whether the session writes out what the handler left changed on
\* its objects when it ends (get_db decides; the response is not affected)
GetAsymmetricKeyPairByKeyName(t, request, flushes) ==
    /\ can_get(t)
    /\ LET return_key_type == IF request.return_key_type = "" THEN "public"
                              ELSE request.return_key_type
           pair == get_asymmetric_key_pair_by_key_name(
                       store["asymmetric"], request.key_name, return_key_type)
       IN  store' = IF master_key.len # 0 /\ flushes
                    THEN [store EXCEPT !["asymmetric"] =
                             flush("asymmetric", @, pair.row, pair.obj).table]
                    ELSE store
    /\ LET return_key_type == IF request.return_key_type = "" THEN "public"
                              ELSE request.return_key_type
           out == svc_get_asymmetric_key_pair_by_key_name(
                      store["asymmetric"], request.key_name, master_key, return_key_type)
           public == utf8_decode(out.result.public_key)
           private == IF out.result.private_key # NoBlob
                      THEN utf8_decode(out.result.private_key)
                      ELSE [exc |-> "", text |-> <<>>]
           decoded == IF public.exc # "" THEN public ELSE private
       IN  answer_get(t, "GetAsymmetricKeyPairByKeyName", "asymmetric", request, out,
                      decoded,
                      AsymmetricKeyPair(out.result, public.text, private.text, 1))
    /\ UNCHANGED <<env, resources, issued, master_key, phase, health, clock>>

GetSymmetricKeyByKeyName(t, request) ==
    /\ can_get(t)
    /\ LET out == svc_get_symmetric_key_by_key_name(
                      store["symmetric"], request.key_name, master_key)
       IN  answer_get(t, "GetSymmetricKeyByKeyName", "symmetric", request, out,
                      [exc |-> "", text |-> <<>>],
                      SymmetricKey(out.result, b64encode(out.result.key_value), 1))
    /\ UNCHANGED <<env, resources, store, issued, master_key, phase, health, clock>>

\* a lifespan that calls start_grpc_server again after it has raised
StartGrpcServer_retrying(file) ==
    /\ phase \in {"down", "stopped", "failed"}
    /\ IF ~file.readable
       THEN /\ phase' = "failed"
            /\ resources' = [NoResources EXCEPT !.engine = "open"]
            /\ UNCHANGED <<master_key, health>>
       ELSE /\ phase' = "serving"
            /\ master_key' = file.key
            /\ health' = [s \in {"", ServiceName} |-> "SERVING"]
            /\ resources' = [NoResources EXCEPT !.engine = "open",
                                                !.grpc_serve_task = "running"]
    /\ UNCHANGED <<env, store, issued, clock, task>>

\* start_grpc_server, in the process's lifespan (a process that starts after
\* an earlier one has stopped finds the rows that one left): init_db opens
\* the engine; read_master_key(master_key_path) raises for a file that
\* cannot be read or parsed; otherwise the servicer keeps the key, health
\* reports SERVING, the listener starts and the task that watches its
\* termination is created
StartGrpcServer(file) ==
    /\ phase \in {"down", "stopped"}
    /\ IF ~file.readable
       THEN /\ phase' = "failed"
            /\ resources' = [NoResources EXCEPT !.engine = "open"]
            /\ UNCHANGED <<master_key, health>>
       ELSE /\ phase' = "serving"
            /\ master_key' = file.key
            /\ health' = [s \in {"", ServiceName} |-> "SERVING"]
            /\ resources' = [NoResources EXCEPT !.engine = "open",
                                                !.grpc_serve_task = "running"]
    /\ UNCHANGED <<env, store, issued, clock, task>>

\* stop_grpc_server that stops the listener without touching health
StopGrpcServer_health_untouched ==
    /\ phase = "serving"
    /\ env.stops
    /\ phase' = "stopping"
    /\ UNCHANGED <<env, resources, store, issued, master_key, health, clock, task>>

\* stop_grpc_server up to its call of server.stop(grace): health reports
\* NOT_SERVING for both names, then the listener refuses new calls while the
\* handlers in flight go on for the grace period
StopGrpcServer ==
    /\ phase = "serving"
    /\ env.stops
    /\ health' = [s \in {"", ServiceName} |-> "NOT_SERVING"]
    /\ phase' = "stopping"
    /\ UNCHANGED <<env, resources, store, issued, master_key, clock, task>>

\* a handler still in flight when the grace period ends is cancelled
cancel(handler) ==
    IF handler.pc = "idle" THEN handler
    ELSE finished(handler.rpc, handler.kind, handler.req, NoObject,
                  abort("CANCELLED", ""), handler.log)

\* stop_grpc_server whose cleanup follows server.stop instead of standing in
\* a finally clause
StopListener_without_finally(raises, terminated) ==
    /\ phase = "stopping"
    /\ phase' = "stopped"
    /\ task' = [t \in DOMAIN task |-> cancel(task[t])]
    /\ resources' =
           IF raises
           THEN [resources EXCEPT !.stop = "raised",
                    !.grpc_serve_task = IF terminated THEN "done" ELSE @]
           ELSE [stop |-> "returned",
                 grpc_serve_task |-> IF terminated THEN "done" ELSE "cancelled",
                 engine |-> "closed"]
    /\ UNCHANGED <<env, store, issued, master_key, health, clock>>

\* stop_grpc_server from the end of `await server.stop(grace)`, which returns
\* or raises, through its finally clause: the termination watch has finished
\* by then or is still pending; if it is not done it is cancelled and
\* awaited; close_db closes the engine; the process ends and the handlers
\* still in flight with it
StopListener(raises, terminated) ==
    /\ phase = "stopping"
    /\ phase' = "stopped"
    /\ task' = [t \in DOMAIN task |-> cancel(task[t])]
    /\ resources' = [stop |-> IF raises THEN "raised" ELSE "returned",
                     grpc_serve_task |-> IF terminated THEN "done" ELSE "cancelled",
                     engine |-> "closed"]
    /\ UNCHANGED <<env, store, issued, master_key, health, clock>>

---------------------------------------------------------------------------
(* The inputs of a run.                                                    *)

Tasks == {"t1", "t2"}

K1 == [len |-> 32, id |-> 1]
K2 == [len |-> 32, id |-> 2]
\* a key file whose hex string is five bytes long: no AES key
KShort == [len |-> 5, id |-> 3]

\* a key other than K1 whose keystream is K1's (for AES-CFB two keys agree
\* on the first n keystream bytes of an IV with probability 2^-8n)
K1Twin == [len |-> 24, id |-> 1 + ByteMod]

IV0 == [i \in 1 .. IVLen |-> 0]
IV1 == [i \in 1 .. IVLen |-> 1]

\* two handlers racing on one key name of one kind, one plaintext
Race(kind) ==
    [name |-> "race", stops |-> FALSE, lookups |-> TRUE, rows |-> MaxRecords, tasks |-> Tasks, kinds |-> {kind}, names |-> {"n1"},
     texts |-> {<<0>>}, key_types |-> {"t"}, mk_versions |-> {0}, rnds |-> {0},
     ivs |-> {IV0},
     key_files |-> {[readable |-> TRUE, version |-> 1, key |-> K1]},
     pems |-> {[private_key |-> <<0, 1>>, public_key |-> <<1>>],
               [private_key |-> <<1, 1>>, public_key |-> <<0>>]},
     keys |-> {<<1>>, <<3>>}, return_key_types |-> {"pair", "public"}]

\* one handler at a time, the payloads and master keys varied
Payload(kind) ==
    [name |-> "payload", stops |-> FALSE, lookups |-> TRUE, rows |-> MaxVersions, tasks |-> {"t1"}, kinds |-> {kind}, names |-> {"n1"},
     texts |-> {<<>>, <<0>>, <<2>>}, key_types |-> {"t"}, mk_versions |-> {0},
     rnds |-> {0}, ivs |-> {IV0, IV1},
     key_files |-> {[readable |-> FALSE, version |-> 0, key |-> NoKey], [readable |-> TRUE, version |-> 1, key |-> NoKey],
                    [readable |-> TRUE, version |-> 1, key |-> K1], [readable |-> TRUE, version |-> 2, key |-> K2],
                    [readable |-> TRUE, version |-> 3, key |-> KShort]},
     pems |-> {[private_key |-> <<0, 1>>, public_key |-> <<1>>],
               [private_key |-> <<1, 1>>, public_key |-> <<0>>]},
     keys |-> {<<>>, <<1>>, <<3>>}, return_key_types |-> {"", "pair", "public", "x"}]

\* one handler at a time, the names and the optional request fields varied
Metadata(kind) ==
    [name |-> "metadata", stops |-> FALSE, lookups |-> TRUE, rows |-> MaxVersions, tasks |-> {"t1"}, kinds |-> {kind}, names |-> {"n1", "n2"},
     texts |-> {<<0>>}, key_types |-> {"", "t"}, mk_versions |-> {0, 2},
     rnds |-> {0}, ivs |-> {IV0},
     key_files |-> {[readable |-> TRUE, version |-> 1, key |-> K1]},
     pems |-> {[private_key |-> <<0, 1>>, public_key |-> <<1>>]},
     keys |-> {<<3>>}, return_key_types |-> {"pair"}]

\* one handler at a time, the process stopped and started again under the
\* same or another master key file
Restart(kind) ==
    [name |-> "restart", stops |-> TRUE, lookups |-> TRUE, rows |-> MaxVersions, tasks |-> {"t1"},
     kinds |-> {kind}, names |-> {"n1"},
     texts |-> {<<0>>, <<2>>}, key_types |-> {"t"}, mk_versions |-> {0}, rnds |-> {0},
     ivs |-> {IV0},
     key_files |-> {[readable |-> TRUE, version |-> 1, key |-> K1], [readable |-> TRUE, version |-> 2, key |-> K2],
                    [readable |-> TRUE, version |-> 3, key |-> KShort]},
     pems |-> {[private_key |-> <<0, 1>>, public_key |-> <<1>>]},
     keys |-> {<<3>>}, return_key_types |-> {"pair", "public"}]

\* two clients that only create, of the given kinds under the given names
Mixed(kinds, names) ==
    [name |-> "mixed", stops |-> FALSE, lookups |-> FALSE, rows |-> MaxRecords,
     tasks |-> Tasks, kinds |-> kinds, names |-> names,
     texts |-> {<<0>>}, key_types |-> {"t"}, mk_versions |-> {0}, rnds |-> {0},
     ivs |-> {IV0},
     key_files |-> {[readable |-> TRUE, version |-> 1, key |-> K1]},
     pems |-> {[private_key |-> <<0, 1>>, public_key |-> <<1>>]},
     keys |-> {<<3>>}, return_key_types |-> {"pair"}]

Scenarios == {Race(k) : k \in Kinds} \cup {Payload(k) : k \in Kinds}
                 \cup {Metadata(k) : k \in Kinds} \cup {Restart(k) : k \in Kinds}
                 \cup {Mixed({"secret", "symmetric"}, {"n1"}),
                       Mixed({"asymmetric"}, {"n1", "n2"})}

CreateSecretRequests ==
    {[NoRequest EXCEPT !.key_name = n, !.value = v, !.key_type = kt, !.mk_version = mv] :
        n \in env.names, v \in env.texts, kt \in env.key_types, mv \in env.mk_versions}

CreateKeyRequests(sizes) ==
    {[NoRequest EXCEPT !.key_name = n, !.key_size = size, !.key_type = kt,
                       !.mk_version = mv] :
        n \in env.names, size \in sizes, kt \in env.key_types, mv \in env.mk_versions}

GetRequests == {[NoRequest EXCEPT !.key_name = n] : n \in env.names}

GetAsymmetricRequests ==
    {[NoRequest EXCEPT !.key_name = n, !.return_key_type = r] :
        n \in env.names, r \in env.return_key_types}

---------------------------------------------------------------------------
(* The specification.                                                      *)

Init ==
    /\ env \in Scenarios
    /\ store = [k \in Kinds |-> <<>>]
    /\ issued = [k \in Kinds |-> <<>>]
    /\ master_key = NoKey
    /\ phase = "down"
    /\ health = [s \in {"", ServiceName} |-> "UNKNOWN"]
    /\ clock = 0
    /\ resources = NoResources
    /\ task = [t \in Tasks |-> IdleTask]

Next ==
    \/ \E file \in env.key_files : StartGrpcServer(file)
    \/ StopGrpcServer
    \/ \E raises, terminated \in BOOLEAN : StopListener(raises, terminated)
    \/ \E t \in Tasks, request \in CreateSecretRequests, now \in instants,
          rnd \in env.rnds, iv \in env.ivs :
          "secret" \in env.kinds /\ CreateSecret(t, request, now, rnd, iv)
    \/ \E t \in Tasks, request \in CreateKeyRequests({2048}), pems \in env.pems,
          now \in instants, rnd \in env.rnds, ivs \in env.ivs \X env.ivs :
          "asymmetric" \in env.kinds
              /\ CreateAsymmetricKeyPair(t, request, pems, now, rnd, ivs)
    \/ \E t \in Tasks, key \in env.keys, now \in instants, rnd \in env.rnds,
          iv \in env.ivs :
          \E request \in CreateKeyRequests({Len(key)}) :
              "symmetric" \in env.kinds
                  /\ CreateSymmetricKey(t, request, key, now, rnd, iv)
    \/ \E t \in Tasks : SelectOld(t)
    \/ \E t \in Tasks : Deactivate(t)
    \/ \E t \in Tasks : Insert(t)
    \/ \E t \in Tasks : Refresh(t)
    \/ \E t \in Tasks : Refetch(t)
    \/ \E t \in Tasks, request \in GetRequests :
          "secret" \in env.kinds /\ GetSecretByName(t, request)
    \/ \E t \in Tasks, request \in GetAsymmetricRequests, flushes \in BOOLEAN :
          "asymmetric" \in env.kinds
              /\ GetAsymmetricKeyPairByKeyName(t, request, flushes)
    \/ \E t \in Tasks, request \in GetRequests :
          "symmetric" \in env.kinds /\ GetSymmetricKeyByKeyName(t, request)

Spec == Init /\ [][Next]_vars

---------------------------------------------------------------------------
(* Properties.                                                             *)

CreateRpcs == {"CreateSecret", "CreateAsymmetricKeyPair", "CreateSymmetricKey"}
GetRpcs == {"GetSecretByName", "GetAsymmetricKeyPairByKeyName", "GetSymmetricKeyByKeyName"}

\* the rows of a table that carry a key name
rows_named(table, key_name) == {i \in 1 .. Len(table) : table[i].key_name = key_name}

\* the handler's last call has ended, with a response
returned(t, rpcs) ==
    task[t].pc = "idle" /\ task[t].rpc \in rpcs /\ task[t].resp.status = "OK"

\* one handler at a time: no two calls of the run overlap
serial == Cardinality(env.tasks) = 1

\* C1: when create calls run one after another, then after a create that
\* succeeded exactly one row of its key name is active, every other row of
\* the name is inactive, the active row is the one that create wrote (the
\* last row of the name, with the kid of the response), and the lookup by
\* that name returns that row.
C1_SerialSingleActive ==
    \A t \in Tasks :
        (serial /\ returned(t, CreateRpcs)) =>
            LET table == store[task[t].kind]
                key_name == task[t].req.key_name
                named == rows_named(table, key_name)
                last == CHOOSE i \in named : \A j \in named : j <= i
                found == lookup_old(task[t].kind, table, key_name)
            IN  /\ named # {}
                /\ active_rows(table, key_name) = {last}
                /\ \A i \in named \ {last} : ~table[i].is_active
                /\ table[last].kid = task[t].resp.body.kid
                /\ found.exc = "" /\ found.row = last

\* C1 witness: a serial run has created a key name twice, of a key pair
C1_Witness ==
    \E t \in Tasks :
        /\ serial /\ returned(t, {"CreateAsymmetricKeyPair"})
        /\ Cardinality(rows_named(store["asymmetric"], task[t].req.key_name)) >= 2

\* C2: the deactivation and the insert of a create are two separate writes
\* with nothing that ties them together: a row is deactivated only by the
\* handler whose own lookup returned it, in a step that inserts nothing, and
\* an insert adds one active row and changes no stored row, whatever rows of
\* that key name are active at that moment. So two creates of one key name
\* that interleave at these writes both succeed and leave two active rows.
C2_RaceLeavesTwoActive ==
    [][\A k \in Kinds :
          /\ \A i \in 1 .. Len(store[k]) :
                (store[k][i].is_active /\ ~store'[k][i].is_active) =>
                    /\ Len(store'[k]) = Len(store[k])
                    /\ \E t \in Tasks :
                          /\ task[t].pc = "deactivate" /\ task'[t].pc = "insert"
                          /\ task[t].kind = k /\ task[t].old = i
          /\ Len(store'[k]) > Len(store[k]) =>
                /\ Len(store'[k]) = Len(store[k]) + 1
                /\ store'[k][Len(store'[k])].is_active
                /\ \A i \in 1 .. Len(store[k]) : store'[k][i] = store[k][i]]_vars

\* C2 witness: two CreateSecret calls of one key name have both returned
\* successfully and the rows they wrote are both active
C2_Witness ==
    \E t1, t2 \in Tasks :
        /\ t1 # t2
        /\ returned(t1, {"CreateSecret"}) /\ returned(t2, {"CreateSecret"})
        /\ task[t1].req.key_name = task[t2].req.key_name
        /\ \E i, j \in active_rows(store["secret"], task[t1].req.key_name) :
              /\ i # j
              /\ store["secret"][i].kid = task[t1].resp.body.kid
              /\ store["secret"][j].kid = task[t2].resp.body.kid

\* a row but for its is_active flag
frozen(row) == [row EXCEPT !.is_active = TRUE]

\* C8: no step removes a row or changes any field of a stored row other
\* than is_active.
C8_AppendOnly ==
    [][\A k \in Kinds :
          /\ Len(store'[k]) >= Len(store[k])
          /\ \A i \in 1 .. Len(store[k]) : frozen(store'[k][i]) = frozen(store[k][i])]_vars

\* C8 witness: a table holds a superseded row beside its successor
C8_Witness ==
    \E k \in Kinds :
        /\ Len(store[k]) >= 2
        /\ \E i, j \in 1 .. Len(store[k]) :
              ~store[k][i].is_active /\ store[k][j].is_active

\* the row of a table that carries a kid
row_of_kid(table, kid) == CHOOSE i \in 1 .. Len(table) : table[i].kid = kid

\* the steps of a call include a call of aes_decrypt_data
attempted_decrypt(log) == \E i \in 1 .. Len(log) : log[i] = "decrypt"

\* C3: a successful lookup of a key pair always carries the decrypted
\* public key (the PEM that was generated, when the master key is the one
\* the row was written under), and carries private-key material, the
\* decrypted private key, exactly when return_key_type is "pair"; with
\* "public", or with the field left empty, the private key of the service
\* result is None and that of the response is empty.
C3_AsymmetricPrivacy ==
    \A t \in Tasks :
        returned(t, {"GetAsymmetricKeyPairByKeyName"}) =>
            LET table == store["asymmetric"]
                i == row_of_kid(table, task[t].resp.body.kid)
                public == aes_decrypt_data(task[t].mk, table[i].public_key).data
                private == aes_decrypt_data(task[t].mk, table[i].private_key).data
                result == task[t].result
                body == task[t].resp.body
            IN  /\ result.public_key = public
                /\ body.public_key = utf8_decode(public).text
                /\ body.public_key # <<>>
                /\ issued["asymmetric"][i].mk = task[t].mk =>
                       public = issued["asymmetric"][i].plain.public_key
                /\ IF task[t].req.return_key_type = "pair"
                   THEN /\ result.private_key = private
                        /\ body.private_key = utf8_decode(private).text
                        /\ body.private_key # <<>>
                   ELSE /\ result.private_key = NoBlob
                        /\ body.private_key = <<>>

\* C3 witness: a lookup that left return_key_type empty has returned the
\* public key of a stored pair and no private key
C3_Witness ==
    \E t \in Tasks :
        /\ returned(t, {"GetAsymmetricKeyPairByKeyName"})
        /\ task[t].req.return_key_type = ""
        /\ task[t].resp.body.public_key # <<>>
        /\ task[t].resp.body.private_key = <<>>

\* the payload fields of a response message
payload_fields(kind) ==
    IF kind = "secret" THEN {"value"}
    ELSE IF kind = "asymmetric" THEN {"public_key", "private_key"}
    ELSE {"key_value"}

\* the text in which a handler sends decrypted bytes
as_text(kind, bytes) == IF kind = "symmetric" THEN b64encode(bytes) ELSE utf8_decode(bytes).text

\* every encrypted blob the store holds
stored_blobs ==
    UNION {UNION {{store[k][i][f] : f \in payload_fields(k)} : i \in 1 .. Len(store[k])} :
              k \in Kinds}

\* C4: in every successful response of the six business RPCs each payload
\* field is empty, or the value the caller sent (CreateSecret), or the
\* decryption under the facade's master key of that field of a stored row
\* of the requested key name (as UTF-8 text, or in base64 for a symmetric
\* key); it is never an encrypted blob of the store and never the master key.
C4_NoCiphertextLeaves ==
    \A t \in Tasks :
        returned(t, CreateRpcs \cup GetRpcs) =>
            LET kind == task[t].kind
                table == store[kind]
                named == rows_named(table, task[t].req.key_name)
                body == task[t].resp.body
                plaintexts(f) ==
                    (IF task[t].rpc = "CreateSecret" THEN {task[t].req.value} ELSE {})
                    \cup {as_text(kind, aes_decrypt_data(task[t].mk, table[i][f]).data) :
                             i \in named}
            IN  \A f \in payload_fields(kind) :
                    /\ body[f] = <<>> \/ body[f] \in plaintexts(f)
                    /\ body[f] \notin stored_blobs
                    /\ body[f] # key_bytes(task[t].mk)

\* C4 witness: a symmetric key has been read back, in base64 of the key
\* bytes that were generated
C4_Witness ==
    \E t \in Tasks :
        /\ returned(t, {"GetSymmetricKeyByKeyName"})
        /\ task[t].resp.body.key_value # <<>>
        /\ \E i \in 1 .. Len(store["symmetric"]) :
              /\ store["symmetric"][i].kid = task[t].resp.body.kid
              /\ task[t].resp.body.key_value =
                     b64encode(issued["symmetric"][i].plain.key_value)

\* C5: in a serial run a successful GetSecretByName returns the row the last
\* create of that name wrote, with is_active true and, under the master key
\* that create used, the value that create was given; every earlier row of
\* the name is inactive.
C5_RotationRoundTrip ==
    \A t \in Tasks :
        (serial /\ returned(t, {"GetSecretByName"})) =>
            LET table == store["secret"]
                named == rows_named(table, task[t].req.key_name)
                last == CHOOSE i \in named : \A j \in named : j <= i
                body == task[t].resp.body
            IN  /\ named # {}
                /\ body.kid = table[last].kid
                /\ body.is_active /\ table[last].is_active
                /\ issued["secret"][last].mk = task[t].mk =>
                       utf8_encode(body.value) = issued["secret"][last].plain.value
                /\ \A i \in named \ {last} : ~table[i].is_active

\* C5 witness: after two creates of a name with different values the lookup
\* has returned the second value
C5_Witness ==
    \E t \in Tasks :
        /\ serial /\ returned(t, {"GetSecretByName"})
        /\ Len(store["secret"]) = 2
        /\ store["secret"][1].key_name = task[t].req.key_name
        /\ store["secret"][2].key_name = task[t].req.key_name
        /\ issued["secret"][1].plain.value # issued["secret"][2].plain.value
        /\ utf8_encode(task[t].resp.body.value) = issued["secret"][2].plain.value

\* the master keys a caller of the service may supply
AllKeys == {NoKey, K1, K2, KShort, K1Twin}

\* the service lookup of a kind
service_get(kind, table, key_name, mk, return_key_type) ==
    IF kind = "secret" THEN get_secret_by_name(table, key_name, mk)
    ELSE IF kind = "asymmetric"
         THEN svc_get_asymmetric_key_pair_by_key_name(table, key_name, mk, return_key_type)
    ELSE svc_get_symmetric_key_by_key_name(table, key_name, mk)

\* a serial run's last call was a lookup, by a facade that holds a master
\* key, of a key name that has no active row
looked_up_unknown(t) ==
    /\ serial /\ task[t].pc = "idle" /\ task[t].rpc \in GetRpcs
    /\ task[t].mk.len # 0
    /\ active_rows(store[task[t].kind], task[t].req.key_name) = {}

\* C6 as claimed: every lookup of a key name without an active row fails
\* with SecretNotFoundError (NOT_FOUND) and decrypts nothing.
C6_Original ==
    \A t \in Tasks :
        looked_up_unknown(t) =>
            task[t].resp.status = "NOT_FOUND" /\ ~attempted_decrypt(task[t].log)

\* C6 amended: for every kind, a lookup with a return_key_type the lookup
\* accepts ("public" or "pair"; the facade sends "public" for an empty field)
\* of a key name without an active row fails with SecretNotFoundError
\* (NOT_FOUND) and decrypts nothing, whatever master key is supplied.
C6_NotFoundPrecedence ==
    /\ \A t \in Tasks :
          (looked_up_unknown(t) /\ task[t].req.return_key_type \in {"", "public", "pair"}) =>
              task[t].resp.status = "NOT_FOUND" /\ ~attempted_decrypt(task[t].log)
    /\ \A k \in Kinds, n \in env.names, mk \in AllKeys, r \in {"public", "pair"} :
          active_rows(store[k], n) = {} =>
              LET out == service_get(k, store[k], n, mk, r)
              IN  out.exc = "SecretNotFoundError" /\ ~attempted_decrypt(out.log)

\* C6 witness: a lookup of an unknown name has ended NOT_FOUND under a
\* master key with which any decryption raises
C6_Witness ==
    \E t \in Tasks :
        /\ looked_up_unknown(t)
        /\ ~valid_aes_key(task[t].mk)
        /\ task[t].resp.status = "NOT_FOUND"

\* C7: while the facade holds an empty master key, every call made ends
\* in that step with FAILED_PRECONDITION, having taken no storage or crypto
\* step, and no step changes the store.
C7_MasterKeyPrecondition ==
    [][(phase = "serving" /\ master_key.len = 0) =>
          /\ store' = store
          /\ \A t \in Tasks :
                task'[t] # task[t] =>
                    /\ task'[t].pc = "idle"
                    /\ task'[t].resp.status = "FAILED_PRECONDITION"
                    /\ task'[t].log = <<>>]_vars

\* C7 witness: a create has been refused for the missing key, the store empty
C7_Witness ==
    \E t \in Tasks :
        /\ phase = "serving" /\ master_key.len = 0
        /\ task[t].pc = "idle" /\ task[t].rpc \in CreateRpcs
        /\ task[t].resp.status = "FAILED_PRECONDITION"
        /\ store = [k \in Kinds |-> <<>>]

\* C9 as claimed: when several rows of a key name are active, the lookup of
\* each kind returns the one with the greatest created_at and does not fail.
C9_MostRecentOfSeveral ==
    \A k \in Kinds, n \in env.names :
        Cardinality(active_rows(store[k], n)) > 1 =>
            LET found == lookup_old(k, store[k], n)
            IN  /\ found.exc = ""
                /\ found.row \in active_rows(store[k], n)
                /\ \A j \in active_rows(store[k], n) :
                      store[k][j].created_at <= store[k][found.row].created_at

\* C10 as claimed: the record create_secrets_key returns has the caller's
\* plaintext as its value.
C10_Original ==
    \A t \in Tasks :
        returned(t, {"CreateSecret"}) =>
            task[t].result.value = utf8_encode(task[t].req.value)

\* C10 amended: the record create_secrets_key returns is the persisted row:
\* its value is the encrypted blob that was stored (which decrypts, under
\* the master key of the call, to the caller's value), with the persisted
\* kid, key_name, key_type, created_at, mk_version and is_active; the
\* caller's plaintext is put into the response by the CreateSecret handler.
C10_CreateResultIsPersistedRow ==
    \A t \in Tasks :
        returned(t, {"CreateSecret"}) =>
            LET table == store["secret"]
                i == row_of_kid(table, task[t].result.kid)
                result == task[t].result
            IN  /\ frozen(result) = frozen(table[i])
                /\ serial => result = table[i]
                /\ result.value # utf8_encode(task[t].req.value)
                /\ aes_decrypt_data(issued["secret"][i].mk, result.value).data
                       = utf8_encode(task[t].req.value)
                /\ result.key_name = task[t].req.key_name
                /\ result.mk_version = request_mk_version(task[t].req)
                /\ task[t].resp.body.value = task[t].req.value

\* C10 witness: a CreateSecret of a non-empty value has returned
C10_Witness ==
    \E t \in Tasks :
        /\ returned(t, {"CreateSecret"})
        /\ task[t].req.value # <<>>
        /\ task[t].result.value # <<>>

\* the plaintext a create handler sends for payload field f of what it wrote
sent_text(kind, plain, f) == as_text(kind, plain[f])

\* C11 as claimed: whatever create calls of the same key name interleave
\* with it, the key material in a successful CreateAsymmetricKeyPair or
\* CreateSymmetricKey response is that of the row this call inserted, the
\* row whose kid the response carries.
C11_CreateReturnsOwnRow ==
    \A t \in Tasks :
        returned(t, {"CreateAsymmetricKeyPair", "CreateSymmetricKey"}) =>
            LET kind == task[t].kind
                i == row_of_kid(store[kind], task[t].resp.body.kid)
            IN  \A f \in payload_fields(kind) :
                    task[t].resp.body[f] = sent_text(kind, issued[kind][i].plain, f)

\* the step is task t's re-fetch of a created key pair (not the end of the
\* server's grace period), and it fails
refetch_fails(t) ==
    /\ task[t].pc = "refetch" /\ task[t].kind = "asymmetric"
    /\ phase' = phase
    /\ task'[t].pc = "idle" /\ task'[t].resp.status # "OK"

failed_after_insert(log) ==
    \E i \in 1 .. Len(log) - 1 : log[i] = "insert" /\ log[i + 1] = "refresh"

C13_InvalidArgument ==
    \A t \in Tasks :
        (/\ task[t].pc = "idle" /\ task[t].rpc = "GetAsymmetricKeyPairByKeyName"
         /\ task[t].req.return_key_type \notin {"", "public", "pair"}
         /\ task[t].resp.status # "FAILED_PRECONDITION") =>
            task[t].resp.status = "INVALID_ARGUMENT"

\* the step is a Get call of task t, from entry to response
get_step(t) ==
    /\ task[t].pc = "idle" /\ task'[t] # task[t]
    /\ task'[t].pc = "idle" /\ task'[t].rpc \in GetRpcs

\* C15: a Get call of any of the three kinds, with a master key loaded and
\* a return_key_type the lookup accepts, for a key name that has no active
\* row when it runs, ends with NOT_FOUND and no message body (not INTERNAL,
\* not a success with empty fields).
C15_NotFoundMapping ==
    [][\A t \in Tasks :
          LET request == task'[t].req
          IN  (/\ get_step(t)
               /\ master_key.len # 0
               /\ request.return_key_type \in {"", "public", "pair"}
               /\ active_rows(store[task'[t].kind], request.key_name) = {}) =>
                  /\ task'[t].resp.status = "NOT_FOUND"
                  /\ task'[t].resp.body = NoObject
                  /\ task'[t].result = NoObject]_vars

\* C15 witness: a GetSymmetricKeyByKeyName has ended NOT_FOUND for a name
\* whose only row was deactivated by a create that has not inserted yet
C15_Witness ==
    \E t \in Tasks :
        /\ task[t].pc = "idle" /\ task[t].rpc = "GetSymmetricKeyByKeyName"
        /\ task[t].resp.status = "NOT_FOUND"
        /\ rows_named(store["symmetric"], task[t].req.key_name) # {}
        /\ active_rows(store["symmetric"], task[t].req.key_name) = {}

\* C18: while the server serves, health reports SERVING for "" and for the
\* business service; from the moment stop_grpc_server has asked the listener
\* to stop, and after the listener has stopped, it reports NOT_SERVING for
\* both, so the listener never is stopping or stopped while health says
\* SERVING.
C18_HealthOrdering ==
    /\ phase = "serving" => \A s \in DOMAIN health : health[s] = "SERVING"
    /\ phase \in {"stopping", "stopped"} =>
           \A s \in DOMAIN health : health[s] = "NOT_SERVING"
    /\ DOMAIN health = {"", ServiceName}

\* C18 witness: health already reports NOT_SERVING while the listener is
\* still up and a handler is in flight
C18_Witness ==
    /\ phase = "stopping"
    /\ health[""] = "NOT_SERVING" /\ health[ServiceName] = "NOT_SERVING"
    /\ \E t \in Tasks : task[t].pc # "idle"

\* the status with which handler rpc ends when exc is raised inside its try
status_of(rpc, exc) == IF rpc \in CreateRpcs THEN create_status(exc) ELSE get_status(exc)

\* the return_key_type a Get handler passes to the service
effective_return_key_type(request) ==
    IF request.return_key_type = "" THEN "public" ELSE request.return_key_type

\* what the service lookup of task t's Get step yields
got(t) ==
    service_get(task'[t].kind, store[task'[t].kind], task'[t].req.key_name, master_key,
                effective_return_key_type(task'[t].req))

undecodable(kind, result) ==
    \E f \in payload_fields(kind) : result[f] # NoBlob /\ utf8_decode(result[f]).exc # ""

C17_GenericInternalMessage ==
    \A t1, t2 \in Tasks :
        (/\ task[t1].pc = "idle" /\ task[t1].resp.status = "INTERNAL"
         /\ task[t2].pc = "idle" /\ task[t2].resp.status = "INTERNAL") =>
            task[t1].resp.message = task[t2].resp.message

\* the two keys give the same keystream for the first n bytes after iv
same_keystream(key1, key2, iv, n) ==
    \A i \in 1 .. n : keystream(key1, iv, i) = keystream(key2, iv, i)

\* the rows that are the only active row of their key name
sole_active(table) ==
    {i \in 1 .. Len(table) : active_rows(table, table[i].key_name) = {i}}

\* C19 as claimed: a lookup under a master key other than the one a record
\* was created under fails with DecryptionError or returns a payload that
\* differs from the one created.
C19_Original ==
    \A k \in Kinds : \A i \in sole_active(store[k]) :
        \A mk \in AllKeys \ {issued[k][i].mk} :
            LET out == service_get(k, store[k], store[k][i].key_name, mk, "pair")
            IN  \/ out.exc = "DecryptionError"
                \/ /\ out.exc = ""
                   /\ \E f \in payload_fields(k) : out.result[f] # issued[k][i].plain[f]

\* C19 amended: a lookup under a master key K2 other than the key K1 a
\* record was created under fails with DecryptionError exactly when K2 is no
\* AES key; otherwise it returns, unchecked, the stored blob decrypted under
\* K2: every payload field has the length of the original and equals the
\* original exactly when the keystreams of K1 and K2 for the blob's IV agree
\* over that length, so an empty payload comes back unchanged under every
\* AES key.
C19_WrongKey ==
    \A k \in Kinds : \A i \in sole_active(store[k]) :
        \A mk \in AllKeys \ {issued[k][i].mk} :
            LET out == service_get(k, store[k], store[k][i].key_name, mk, "pair")
                written == issued[k][i]
            IN  IF ~valid_aes_key(mk) THEN out.exc = "DecryptionError"
                ELSE /\ out.exc = ""
                     /\ \A f \in payload_fields(k) :
                           /\ Len(out.result[f]) = Len(written.plain[f])
                           /\ out.result[f] = written.plain[f] <=>
                                  same_keystream(written.mk, mk,
                                      SubSeq(store[k][i][f], 1, IVLen),
                                      Len(written.plain[f]))

\* C19 witness: a symmetric key written under one master key has been read,
\* after a restart, under another AES key, and the bytes returned differ
C19_Witness ==
    \E t \in Tasks :
        /\ returned(t, {"GetSymmetricKeyByKeyName"})
        /\ \E i \in sole_active(store["symmetric"]) :
              /\ store["symmetric"][i].kid = task[t].resp.body.kid
              /\ issued["symmetric"][i].mk # task[t].mk
              /\ issued["symmetric"][i].plain.key_value # <<>>
              /\ task[t].resp.body.key_value #
                     b64encode(issued["symmetric"][i].plain.key_value)

\* the plaintexts the service encrypts in this run
plaintexts ==
    {utf8_encode(text) : text \in env.texts} \cup env.keys
        \cup {pem.private_key : pem \in env.pems} \cup {pem.public_key : pem \in env.pems}

\* C20: for every AES key, IV and plaintext P the blob aes_encrypt_data
\* makes is the IV followed by Len(P) bytes and aes_decrypt_data under the
\* same key, taking the first 16 bytes as the IV, returns P; so every stored
\* blob decrypts under the master key it was written with to the plaintext
\* that was encrypted. (A key that is no AES key makes both raise.)
C20_EnvelopeRoundTrip ==
    /\ \A key \in AllKeys, iv \in env.ivs, P \in plaintexts :
          LET blob == aes_encrypt_data(key, iv, P)
          IN  IF valid_aes_key(key)
              THEN /\ blob.exc = ""
                   /\ Len(blob.data) = IVLen + Len(P)
                   /\ SubSeq(blob.data, 1, IVLen) = iv
                   /\ aes_decrypt_data(key, blob.data) = [exc |-> "", data |-> P]
              ELSE blob.exc = "ValueError" /\ aes_decrypt_data(key, P).exc = "ValueError"
    /\ \A k \in Kinds : \A i \in 1 .. Len(store[k]) : \A f \in payload_fields(k) :
          aes_decrypt_data(issued[k][i].mk, store[k][i][f])
              = [exc |-> "", data |-> issued[k][i].plain[f]]

\* C20 witness: a stored secret of a two-byte plaintext whose blob is not
\* the plaintext decrypts to it
C20_Witness ==
    \E i \in 1 .. Len(store["secret"]) :
        /\ Len(issued["secret"][i].plain.value) = 2
        /\ SubSeq(store["secret"][i].value, IVLen + 1, IVLen + 2)
               # issued["secret"][i].plain.value
        /\ aes_decrypt_data(issued["secret"][i].mk, store["secret"][i].value).data
               = issued["secret"][i].plain.value

\* the kids stored in a table
kids(table) == {table[i].kid : i \in 1 .. Len(table)}

\* C21: no two rows of a table have the same kid and no step changes the kid
\* of a stored row; a create whose generated kid is already stored is not
\* stopped before its insert (it has done its lookup, and its deactivation
\* if it found a row), and at the insert it fails with the integrity error,
\* the call ends INTERNAL and the table is left as it was.
C21_KidUniqueness ==
    [][\A k \in Kinds :
          /\ Cardinality(kids(store'[k])) = Len(store'[k])
          /\ \A i \in 1 .. Len(store[k]) :
                Len(store'[k]) >= i /\ store'[k][i].kid = store[k][i].kid
          /\ \A t \in Tasks :
                (/\ task[t].pc = "insert" /\ task[t].kind = k
                 /\ task[t].obj.kid \in kids(store[k])
                 /\ task'[t].pc # "insert" /\ phase' = phase) =>
                    /\ store' = store
                    /\ task'[t].pc = "idle"
                    /\ task'[t].resp = abort("INTERNAL", "IntegrityError")
                    /\ task'[t].log = task[t].log \o <<"insert">>]_vars

\* C21 witness: a CreateSecret whose kid was that of a stored row has failed
\* at its insert, after deactivating the row it had found
C21_Witness ==
    \E t \in Tasks :
        /\ task[t].pc = "idle" /\ task[t].rpc = "CreateSecret"
        /\ task[t].resp = abort("INTERNAL", "IntegrityError")
        /\ task[t].log = <<"encrypt", "select", "update", "refresh", "insert">>
        /\ Len(store["secret"]) = 1

\* C22 as claimed: the insert of a create that omitted key_type, with a kid
\* not yet stored, adds a new active row of its key name, for symmetric keys
\* as for secrets and key pairs.
C22_OptionalKeyType ==
    [][\A t \in Tasks :
          (/\ task[t].pc = "insert" /\ task'[t].pc # "insert" /\ phase' = phase
           /\ task[t].req.key_type = ""
           /\ task[t].obj.kid \notin kids(store[task[t].kind])) =>
              LET k == task[t].kind
              IN  /\ Len(store'[k]) = Len(store[k]) + 1
                  /\ store'[k][Len(store'[k])].key_name = task[t].req.key_name
                  /\ store'[k][Len(store'[k])].is_active
                  /\ task'[t].pc = "refresh"]_vars

\* the values of the mk_version column: the request's, or 1
MkVersions == {1, 2}

\* the table with the mk_version of row i replaced by versions[i]
with_mk_versions(table, versions) ==
    [i \in 1 .. Len(table) |-> [table[i] EXCEPT !.mk_version = versions[i]]]

\* C23: for the stored tables and every table that differs from them only
\* in the mk_version of its rows, a lookup of any kind with the same key
\* name, master key and return_key_type raises the same exception after the
\* same steps or returns the same row with the same decrypted payload: the
\* key that decrypts is the one passed in, whatever mk_version is recorded.
C23_MkVersionIgnored ==
    \A k \in Kinds : \A versions \in [1 .. Len(store[k]) -> MkVersions] :
        \A key_name \in env.names, mk \in AllKeys, r \in {"pair", "public", "x"} :
            LET out == service_get(k, store[k], key_name, mk, r)
                other == service_get(k, with_mk_versions(store[k], versions),
                                     key_name, mk, r)
            IN  /\ other.exc = out.exc
                /\ other.log = out.log
                /\ out.exc = "" =>
                      /\ other.result.kid = out.result.kid
                      /\ \A f \in payload_fields(k) : other.result[f] = out.result[f]
                      /\ [other.result EXCEPT !.mk_version = out.result.mk_version]
                             = out.result

\* C23 witness: a secret recorded with mk_version 2 has been looked up and
\* its plaintext returned, decrypted under the server's master key
C23_Witness ==
    \E t \in Tasks :
        /\ returned(t, {"GetSecretByName"})
        /\ task[t].resp.body.mk_version = 2
        /\ \E i \in 1 .. Len(store["secret"]) :
              /\ store["secret"][i].kid = task[t].resp.body.kid
              /\ store["secret"][i].mk_version = 2
              /\ issued["secret"][i].mk = task[t].mk
              /\ task[t].resp.body.value = utf8_decode(issued["secret"][i].plain.value).text

\* the step is a step of the create that handler t is running
create_step(t) == task[t].pc # "idle" /\ task'[t].pc # task[t].pc

\* C24: a stored row changes, and a table grows, only in a step of a create
\* of that row's kind and key name, and a table grows by one row at a time;
\* so a create changes no row of another kind (of the same key name or not)
\* and no row of its kind under another key name, however the creates
\* interleave, and the insert of a create that no other create of its kind
\* and key name has been in flight with leaves the new row the only active
\* row of its name, whatever creates of other kinds and names run with it.
C24_KindsAndNamesIndependent ==
    [][\A k \in Kinds :
          /\ \A i \in 1 .. Len(store[k]) :
                (Len(store'[k]) < i \/ store'[k][i] # store[k][i]) =>
                    \E t \in Tasks :
                        /\ create_step(t) /\ task[t].kind = k
                        /\ task[t].req.key_name = store[k][i].key_name
          /\ Len(store'[k]) # Len(store[k]) =>
                /\ Len(store'[k]) = Len(store[k]) + 1
                /\ \E t \in Tasks :
                      /\ create_step(t) /\ task[t].kind = k
                      /\ task[t].req.key_name = store'[k][Len(store'[k])].key_name
          /\ \A t \in Tasks :
                (/\ task[t].kind = k /\ ~task[t].raced
                 /\ task[t].pc = "insert" /\ task'[t].pc = "refresh") =>
                    active_rows(store'[k], task[t].req.key_name) = {Len(store'[k])}]_vars

\* C24 witness: a CreateSecret that replaced the secret of a name has just
\* inserted while a CreateSymmetricKey of the same name is in flight, and
\* the name has one active secret
C24_Witness ==
    \E t, u \in Tasks :
        /\ task[t].pc = "refresh" /\ task[t].kind = "secret" /\ ~task[t].raced
        /\ task[u].pc \in {"select_old", "insert"} /\ task[u].kind = "symmetric"
        /\ task[u].req.key_name = task[t].req.key_name
        /\ Len(store["secret"]) = 2
        /\ active_rows(store["secret"], task[t].req.key_name) = {2}

\* C25: when read_master_key raises at startup the process has failed for
\* good: nothing is tried again (no step follows), the servicer holds no key,
\* neither health name has been set to SERVING and no handler has run.
C25_FatalMasterKeyLoad ==
    [][/\ phase = "failed" => UNCHANGED vars
       /\ phase' = "failed" =>
             /\ master_key' = NoKey
             /\ \A s \in DOMAIN health' : health'[s] # "SERVING"
             /\ \A t \in Tasks : task'[t] = IdleTask
             /\ \A k \in Kinds : store'[k] = <<>>]_vars

\* C25 witness: startup has failed on a key file that cannot be read, in a
\* run whose other key files can
C25_Witness ==
    /\ phase = "failed"
    /\ \E file \in env.key_files : file.readable
    /\ health[ServiceName] = "UNKNOWN"

\* C26: a Get call of any kind, with any return_key_type, leaves every
\* table as it was, whether or not the session flushes when it ends: the
\* private_key that the lookup of a key pair with return_key_type "public"
\* sets to None on the object it returns is not written to the row, whose
\* private_key stays the blob that was inserted.
C26_LookupsReadOnly ==
    [][/\ \A t \in Tasks : get_step(t) => store' = store
       /\ \A i \in 1 .. Len(store'["asymmetric"]) :
             aes_decrypt_data(issued'["asymmetric"][i].mk,
                              store'["asymmetric"][i].private_key).data
                 = issued'["asymmetric"][i].plain.private_key]_vars

\* C26 witness: a key pair has been looked up with return_key_type "public"
\* (no private key in the response) and with "pair" (the private key in the
\* response), and its row holds the private key
C26_Witness ==
    \E t, u \in Tasks :
        /\ returned(t, {"GetAsymmetricKeyPairByKeyName"})
        /\ returned(u, {"GetAsymmetricKeyPairByKeyName"})
        /\ effective_return_key_type(task[t].req) = "public"
        /\ task[t].resp.body.private_key = <<>>
        /\ task[u].resp.body.kid = task[t].resp.body.kid
        /\ task[u].resp.body.private_key # <<>>
        /\ \E i \in 1 .. Len(store["asymmetric"]) :
              /\ store["asymmetric"][i].kid = task[t].resp.body.kid
              /\ store["asymmetric"][i].private_key # NoBlob

\* C27 as claimed: when the insert of a create that found an active row of
\* its key name fails, that row is active afterwards and the key name has
\* an active row.
C27_FailedCreateKeepsActive ==
    [][\A t \in Tasks :
          (/\ task[t].pc = "insert" /\ task'[t].pc = "idle" /\ phase' = phase
           /\ task[t].old # 0) =>
              /\ store'[task[t].kind][task[t].old].is_active
              /\ active_rows(store'[task[t].kind], task[t].req.key_name) # {}]_vars

\* C28 as claimed: a Get call for a key name that has a stored row of its
\* kind does not end NOT_FOUND, whether or not a create of that name is in
\* flight.
C28_NoNotFoundWindow ==
    [][\A t \in Tasks :
          (/\ get_step(t)
           /\ rows_named(store[task'[t].kind], task'[t].req.key_name) # {}) =>
              task'[t].resp.status # "NOT_FOUND"]_vars

\* C29 as claimed: the lookup of the old version at the head of a create
\* that runs alone (no other create of its kind and key name in flight with
\* it) succeeds in every reachable state, two active rows of the name
\* included, so that the create goes on to deactivate and insert.
C29_RecoversFromDoubleActive ==
    [][\A t \in Tasks :
          (/\ task[t].pc = "select_old" /\ task'[t].pc # "select_old" /\ phase' = phase
           /\ ~task[t].raced /\ rivals(t, task[t].kind, task[t].req.key_name) = {}) =>
              task'[t].pc \in {"deactivate", "insert"}]_vars

\* C30: a row is inserted active; over every step an inactive row stays
\* inactive, so is_active changes at most once, from TRUE to FALSE; and
\* the step that makes a row inactive is the deactivation of a create of the
\* row's kind and key name whose lookup had returned that row.
C30_IsActiveMonotone ==
    [][\A k \in Kinds :
          /\ \A i \in Len(store[k]) + 1 .. Len(store'[k]) : store'[k][i].is_active
          /\ \A i \in 1 .. Len(store[k]) :
                /\ Len(store'[k]) >= i
                /\ ~store[k][i].is_active => ~store'[k][i].is_active
                /\ (store[k][i].is_active /\ ~store'[k][i].is_active) =>
                      \E t \in Tasks :
                          /\ task[t].pc = "deactivate" /\ task'[t].pc = "insert"
                          /\ task[t].kind = k /\ task[t].old = i
                          /\ task[t].req.key_name = store[k][i].key_name]_vars

\* C30 witness: of two racing creates that both found row 1, the second has
\* deactivated it after the first had inserted its row: row 1 is inactive,
\* the row of the first is active
C30_Witness ==
    \E t \in Tasks : \E k \in Kinds :
        /\ task[t].pc = "insert" /\ task[t].kind = k /\ task[t].old = 1 /\ task[t].raced
        /\ Len(store[k]) = 2
        /\ ~store[k][1].is_active /\ store[k][2].is_active
        /\ store[k][2].key_name = task[t].req.key_name

\* the return_key_type values the lookup of a key pair does not accept
InvalidReturnKeyTypes == {"", "x", "private"}

\* C31: the lookup of a key pair with a return_key_type other than "public"
\* and "pair" raises ValueError before any select, under every master key
\* and whether the key name has no row, one active row or several: never
\* SecretNotFoundError, and nothing is decrypted; a Get call with such a
\* return_key_type ends in that error with no storage step taken, and the
\* store is unchanged.
C31_UsageErrorPrecedesStorage ==
    [][/\ \A n \in env.names, mk \in AllKeys, r \in InvalidReturnKeyTypes :
             svc_get_asymmetric_key_pair_by_key_name(store'["asymmetric"], n, mk, r)
                 = [exc |-> "ValueError", result |-> NoObject, log |-> <<>>]
       /\ \A t \in Tasks :
             (/\ get_step(t) /\ task'[t].rpc = "GetAsymmetricKeyPairByKeyName"
              /\ master_key.len # 0
              /\ effective_return_key_type(task'[t].req) \in InvalidReturnKeyTypes) =>
                 /\ store' = store
                 /\ task'[t].log = <<>>
                 /\ task'[t].resp.message = "ValueError"
                 /\ task'[t].resp.status # "NOT_FOUND"
                 /\ task'[t].resp.body = NoObject]_vars

\* C31 witness: a lookup with return_key_type "x" has been rejected for a
\* key name that has no row
C31_Witness ==
    \E t \in Tasks :
        /\ task[t].pc = "idle" /\ task[t].rpc = "GetAsymmetricKeyPairByKeyName"
        /\ task[t].req.return_key_type = "x"
        /\ task[t].resp.message = "ValueError" /\ task[t].log = <<>>
        /\ rows_named(store["asymmetric"], task[t].req.key_name) = {}

\* the "version" of the master key file that holds a key (read_master_key
\* returns data["key"] only)
version_of(key) ==
    (CHOOSE file \in env.key_files : file.readable /\ file.key = key).version

\* C32 as claimed: the mk_version stored with a row is the version of the
\* master key file whose key encrypted the row's payload.
C32_RecordedVersionIsKeyVersion ==
    \A k \in Kinds : \A i \in 1 .. Len(store[k]) :
        store[k][i].mk_version = version_of(issued[k][i].mk)

\* the payload columns of the three tables
PayloadFields == UNION {payload_fields(k) : k \in Kinds}

\* the row (or object to insert) of another table with the same values in
\* the columns the tables share, and some blob in its payload columns
as_kind(kind, row) ==
    [f \in (DOMAIN row \ PayloadFields) \cup payload_fields(kind) |->
        IF f \in PayloadFields THEN IV0 ELSE row[f]]

\* what the lifecycle of a key name is made of: per row, the name and
\* whether the row is active
lifecycle(table) ==
    [i \in 1 .. Len(table) |-> [key_name |-> table[i].key_name,
                                is_active |-> table[i].is_active]]

\* C33 as claimed: every step of a create of one kind (the lookup of the
\* old version, its deactivation, the insert) has the same outcome and
\* leaves the same rows active as the same step of each other kind's
\* repository on a table with the same names, flags, kids and metadata.
C33_SharedLifecycle ==
    [][\A t \in Tasks, kind \in Kinds :
          LET k == task[t].kind
              key_name == task[t].req.key_name
              table == [i \in 1 .. Len(store[k]) |-> as_kind(kind, store[k][i])]
              old == lookup_old(kind, table, key_name)
              done == insert(kind, table, as_kind(kind, task[t].obj))
          IN  /\ (task[t].pc = "select_old" /\ task'[t].pc # "select_old"
                  /\ phase' = phase) =>
                     /\ old.exc = lookup_old(k, store[k], key_name).exc
                     /\ old.row = lookup_old(k, store[k], key_name).row
              /\ (task[t].pc = "deactivate" /\ task'[t].pc = "insert") =>
                     lifecycle(deactivate(table, task[t].old)) = lifecycle(store'[k])
              /\ (task[t].pc = "insert" /\ task'[t].pc # "insert" /\ phase' = phase) =>
                     /\ (done.exc = "") = (task'[t].pc = "refresh")
                     /\ lifecycle(done.table) = lifecycle(store'[k])]_vars

is_prefix(s, t) == Len(s) <= Len(t) /\ SubSeq(t, 1, Len(s)) = s

\* the storage and crypto steps of a call that runs to its response, in the
\* order of the code, each once: a create with no old version and one with
\* an old version to deactivate, with the re-fetch of the two key handlers;
\* a lookup, with the second decryption of a 'pair'
scripts(rpc) ==
    LET fresh == <<"encrypt", "select", "insert", "refresh">>
        rotating == <<"encrypt", "select", "update", "refresh", "insert", "refresh">>
    IN  IF rpc = "CreateSecret" THEN {fresh, rotating}
        ELSE IF rpc = "CreateAsymmetricKeyPair"
        THEN {fresh \o <<"select", "decrypt", "decrypt">>,
              rotating \o <<"select", "decrypt", "decrypt">>}
        ELSE IF rpc = "CreateSymmetricKey"
        THEN {fresh \o <<"select", "decrypt">>, rotating \o <<"select", "decrypt">>}
        ELSE IF rpc = "GetAsymmetricKeyPairByKeyName"
        THEN {<<"select", "decrypt">>, <<"select", "decrypt", "decrypt">>}
        ELSE {<<"select", "decrypt">>}

\* the handler of t has taken a step
acted(t) ==
    \/ task'[t].pc # task[t].pc
    \/ task'[t].log # task[t].log
    \/ task[t].pc = "idle" /\ task'[t] # task[t]

\* C34: every call ends with one outcome, a response or an abort status and
\* never both, and has none while it runs; the steps a call has taken are
\* the beginning of one pass through its handler, so no storage step is
\* taken twice; a call that succeeds has taken the whole pass; and the step
\* in which a call fails writes nothing and ends the call.
C34_NoRetriesOneOutcome ==
    [][\A t \in Tasks :
          acted(t) =>
              LET call == task'[t]
              IN  /\ (call.pc = "idle") = (call.resp # NoResponse)
                  /\ call.pc = "idle" =>
                         (call.resp.status = "OK") = (call.resp.body # NoObject)
                  /\ \E script \in scripts(call.rpc) : is_prefix(call.log, script)
                  /\ (call.pc = "idle" /\ call.resp.status = "OK") =>
                         call.log \in scripts(call.rpc)
                  /\ (task[t].pc # "idle" /\ call.pc # "idle") =>
                         /\ is_prefix(task[t].log, call.log)
                         /\ Len(call.log) > Len(task[t].log)
                  /\ (call.pc = "idle" /\ call.resp.status \notin {"OK", "CANCELLED"}) =>
                         store' = store]_vars

\* C34 witness: a create has deactivated the old version, failed at its
\* insert and ended there with INTERNAL, its one insert the last step
C34_Witness ==
    \E t \in Tasks :
        /\ task[t].pc = "idle"
        /\ task[t].rpc \in CreateRpcs
        /\ task[t].resp.status = "INTERNAL"
        /\ task[t].log = <<"encrypt", "select", "update", "refresh", "insert">>

\* C35: once stop_grpc_server has ended, whether server.stop returned or
\* raised, the termination watch is not running (it had finished or has been
\* cancelled) and the gRPC database engine is closed.
C35_ShutdownReleasesResources ==
    phase = "stopped" =>
        /\ resources.stop \in {"returned", "raised"}
        /\ resources.grpc_serve_task \in {"done", "cancelled"}
        /\ resources.engine = "closed"

\* C35 witness: server.stop has raised with the termination watch still
\* pending; the watch is cancelled and the engine closed
C35_Witness ==
    /\ phase = "stopped"
    /\ resources = [stop |-> "raised", grpc_serve_task |-> "cancelled", engine |-> "closed"]

====
